---- MODULE Spec2Model ----
(***************************************************************************)
(* Model of src/main.py: the CSV -> JSON converter.                        *)
(*                                                                         *)
(* A Python str is a sequence of one-character strings.  Python's None is  *)
(* NoneVal and a list (the value DictReader files under its restkey) is a  *)
(* sequence led by ListTag: neither is a sequence of characters, so IsStr  *)
(* tells them from a str.  A function that may raise returns a record      *)
(* [exc, val]; exc = NoExc means it returned val.                          *)
(***************************************************************************)
EXTENDS Integers, Sequences, FiniteSets, TLC

\* ---------------------------------------------------------------- bounds
\* Most data records a model input file holds after its header line.
MaxRows == 2
\* Most whitespace characters added on each side of a date text.
MaxPad == 1

\* --------------------------------------------------------------- strings
Digits == {"0", "1", "2", "3", "4", "5", "6", "7", "8", "9"}
NonZeroDigits == Digits \ {"0"}
TAB == "\t"
\* The characters str.strip() removes (those the model's alphabet holds).
Whitespace == {" ", TAB}
\* The alphabet of the model's texts.
Chars == Digits \cup Whitespace \cup
         {"/", "-", ".", ",", ";", "|", "+", "_", "A", "B", "X", "a", "b",
          "c", "d", "e", "g", "l", "n", "o", "p", "r", "t", "v", "m", "i"}

NoneVal == <<"None">>
NoneKey == <<"None">>
ListTag == "list"
ItemSep == "item"
NoExc == "none"

IsStr(v) == \A i \in 1..Len(v) : v[i] \in Chars

DigitVal(c) ==
  CASE c = "0" -> 0 [] c = "1" -> 1 [] c = "2" -> 2 [] c = "3" -> 3
    [] c = "4" -> 4 [] c = "5" -> 5 [] c = "6" -> 6 [] c = "7" -> 7
    [] c = "8" -> 8 [] c = "9" -> 9

DigitChar(n) ==
  CASE n = 0 -> "0" [] n = 1 -> "1" [] n = 2 -> "2" [] n = 3 -> "3"
    [] n = 4 -> "4" [] n = 5 -> "5" [] n = 6 -> "6" [] n = 7 -> "7"
    [] n = 8 -> "8" [] n = 9 -> "9"

\* str.strip(): drop the leading and the trailing whitespace.
RECURSIVE LStrip(_)
LStrip(s) ==
  IF s # <<>> /\ Head(s) \in Whitespace THEN LStrip(Tail(s)) ELSE s

RECURSIVE RStrip(_)
RStrip(s) ==
  IF s # <<>> /\ s[Len(s)] \in Whitespace
  THEN RStrip(SubSeq(s, 1, Len(s) - 1))
  ELSE s

Strip(s) == RStrip(LStrip(s))

\* int() of a run of decimal digits.
RECURSIVE DecimalValue(_)
DecimalValue(s) ==
  IF s = <<>> THEN 0
  ELSE 10 * DecimalValue(SubSeq(s, 1, Len(s) - 1)) + DigitVal(s[Len(s)])

\* ---------------------------------------------------------------- int()
\* The digits part of an int() literal: digits, single underscores allowed
\* between two digits only.
IsIntBody(s) ==
  /\ s # <<>>
  /\ \A i \in 1..Len(s) : s[i] \in Digits \cup {"_"}
  /\ s[1] # "_" /\ s[Len(s)] # "_"
  /\ \A i \in 1..(Len(s) - 1) : ~(s[i] = "_" /\ s[i + 1] = "_")

RECURSIVE DropUnderscores(_)
DropUnderscores(s) ==
  IF s = <<>> THEN <<>>
  ELSE IF Head(s) = "_" THEN DropUnderscores(Tail(s))
  ELSE <<Head(s)>> \o DropUnderscores(Tail(s))

\* Python's int(value) on a str: surrounding whitespace ignored, an optional
\* sign, then the digits; anything else raises ValueError.
PyInt(value) ==
  LET s == Strip(value)
      signed == s # <<>> /\ s[1] \in {"+", "-"}
      body == IF signed THEN Tail(s) ELSE s
  IN IF IsIntBody(body)
     THEN [exc |-> NoExc,
           val |-> IF signed /\ s[1] = "-"
                   THEN 0 - DecimalValue(DropUnderscores(body))
                   ELSE DecimalValue(DropUnderscores(body))]
     ELSE [exc |-> "ValueError", val |-> 0]

\* parse_int with the except clause left out: the conversion error escapes.
parse_int_NoExcept(value, default) ==
  LET v == Strip(IF value = NoneVal THEN <<>> ELSE value)
  IN IF v = <<>> THEN [exc |-> NoExc, val |-> default] ELSE PyInt(v)

parse_int(value, default) ==
  LET v == Strip(IF value = NoneVal THEN <<>> ELSE value)
      r == IF v = <<>> THEN [exc |-> NoExc, val |-> default] ELSE PyInt(v)
  IN IF r.exc # NoExc THEN [exc |-> NoExc, val |-> default] ELSE r

\* ------------------------------------------------------- datetime.strptime
At(s, i) == IF i \in 1..Len(s) THEN s[i] ELSE ""

IsLeap(year) == (year % 4 = 0 /\ year % 100 # 0) \/ year % 400 = 0

\* DaysInMonth with the leap-year rule forgotten.
DaysInMonth_NoLeap(year, month) ==
  IF month = 2 THEN 28
  ELSE IF month \in {4, 6, 9, 11} THEN 30 ELSE 31

DaysInMonth(year, month) ==
  IF month = 2 THEN (IF IsLeap(year) THEN 29 ELSE 28)
  ELSE IF month \in {4, 6, 9, 11} THEN 30 ELSE 31

\* date(year, month, day) raises ValueError outside these ranges.
IsCalendarDate(year, month, day) ==
  /\ year \in 1..9999
  /\ month \in 1..12
  /\ day \in 1..DaysInMonth(year, month)

\* The alternatives of the regular expression strptime builds for %d, in
\* its order: 3[0-1] | [1-2]\d | 0[1-9] | [1-9] | " "[1-9].
DayAlts == 1..5
DayAltLen(k) == IF k = 4 THEN 1 ELSE 2
DayAltMatches(s, i, k) ==
  CASE k = 1 -> At(s, i) = "3" /\ At(s, i + 1) \in {"0", "1"}
    [] k = 2 -> At(s, i) \in {"1", "2"} /\ At(s, i + 1) \in Digits
    [] k = 3 -> At(s, i) = "0" /\ At(s, i + 1) \in NonZeroDigits
    [] k = 4 -> At(s, i) \in NonZeroDigits
    [] k = 5 -> At(s, i) = " " /\ At(s, i + 1) \in NonZeroDigits

\* The alternatives for %m: 1[0-2] | 0[1-9] | [1-9].
MonthAlts == 1..3
MonthAltLen(k) == IF k = 3 THEN 1 ELSE 2
MonthAltMatches(s, i, k) ==
  CASE k = 1 -> At(s, i) = "1" /\ At(s, i + 1) \in {"0", "1", "2"}
    [] k = 2 -> At(s, i) = "0" /\ At(s, i + 1) \in NonZeroDigits
    [] k = 3 -> At(s, i) \in NonZeroDigits

\* %Y: \d\d\d\d.
YearMatches(s, i) == \A j \in i..(i + 3) : At(s, j) \in Digits

\* re.match of the compiled CSV_DATE_FORMAT at the start of s: the pairs of
\* alternatives under which the whole expression matches.
FormatMatches(s) ==
  {ab \in DayAlts \X MonthAlts :
     LET dl == DayAltLen(ab[1])
         ml == MonthAltLen(ab[2])
     IN /\ DayAltMatches(s, 1, ab[1])
        /\ At(s, 1 + dl) = "/"
        /\ MonthAltMatches(s, 2 + dl, ab[2])
        /\ At(s, 2 + dl + ml) = "/"
        /\ YearMatches(s, 3 + dl + ml)}

\* The match the backtracking search finds first.
FirstMatch(s) ==
  CHOOSE ab \in FormatMatches(s) :
    \A cd \in FormatMatches(s) :
      ab[1] < cd[1] \/ (ab[1] = cd[1] /\ ab[2] <= cd[2])

NoDate == [year |-> 0, month |-> 0, day |-> 0]

\* datetime.strptime(value, "%d/%m/%Y").date()
strptime(s) ==
  IF FormatMatches(s) = {} THEN [exc |-> "ValueError", val |-> NoDate]
  ELSE
    LET ab == FirstMatch(s)
        dl == DayAltLen(ab[1])
        ml == MonthAltLen(ab[2])
        end == dl + ml + 6
        day == DecimalValue(Strip(SubSeq(s, 1, dl)))
        month == DecimalValue(SubSeq(s, 2 + dl, 1 + dl + ml))
        year == DecimalValue(SubSeq(s, 3 + dl + ml, 6 + dl + ml))
    IN IF Len(s) # end
       THEN [exc |-> "ValueError", val |-> NoDate]
       ELSE IF ~IsCalendarDate(year, month, day)
       THEN [exc |-> "ValueError", val |-> NoDate]
       ELSE [exc |-> NoExc,
             val |-> [year |-> year, month |-> month, day |-> day]]

\* ------------------------------------------------------- date.strftime
RECURSIVE IntText(_)
IntText(n) ==
  IF n < 10 THEN <<DigitChar(n)>>
  ELSE IntText(n \div 10) \o <<DigitChar(n % 10)>>

RECURSIVE ZeroPad(_, _)
ZeroPad(s, width) == IF Len(s) >= width THEN s ELSE ZeroPad(<<"0">> \o s, width)

\* d.strftime("%d/%m/%Y"); %Y is the C library's: glibc writes a year below
\* 1000 without leading zeros, other libraries pad it to four digits.
strftime(d, padsYear) ==
  ZeroPad(IntText(d.day), 2) \o <<"/">> \o ZeroPad(IntText(d.month), 2)
    \o <<"/">> \o (IF padsYear THEN ZeroPad(IntText(d.year), 4)
                   ELSE IntText(d.year))

\* parse_date_ddmmyyyy; padsYear is the platform's %Y behaviour.
parse_date_ddmmyyyy(value, padsYear) ==
  LET v == Strip(IF value = NoneVal THEN <<>> ELSE value)
      d == strptime(v)
  IN IF v = <<>> THEN <<>>
     ELSE IF d.exc # NoExc THEN <<>>
     ELSE strftime(d.val, padsYear)

\* ------------------------------------------------------------ csv reading
\* A line csv.reader refuses (a field longer than its field size limit):
\* reading it raises csv.Error.
OversizedLine == <<"field larger than field limit">>

IndexOf(s, c) ==
  IF \E i \in 1..Len(s) : s[i] = c
  THEN CHOOSE i \in 1..Len(s) : s[i] = c /\ \A j \in 1..(i - 1) : s[j] # c
  ELSE 0

RECURSIVE SplitFields(_, _)
SplitFields(s, delim) ==
  LET i == IndexOf(s, delim)
  IN IF i = 0 THEN <<s>>
     ELSE <<SubSeq(s, 1, i - 1)>> \o SplitFields(SubSeq(s, i + 1, Len(s)), delim)

\* One row of csv.reader(f, delimiter=delim): the fields of a line (no quote
\* characters in the model's alphabet); a blank line is the empty row.
ReaderRow(line, delim) == IF line = <<>> THEN <<>> ELSE SplitFields(line, delim)

RECURSIVE JoinItems(_)
JoinItems(items) ==
  IF items = <<>> THEN <<>>
  ELSE Head(items) \o <<ItemSep>> \o JoinItems(Tail(items))

\* The list DictReader stores under restkey (None) for a long row.
ListVal(items) == <<ListTag>> \o JoinItems(items)

\* DictReader.__next__'s dict: dict(zip(fieldnames, row)), then the extra
\* values under restkey None, or restval None for the missing ones.
RowDict(names, row) ==
  LET lf == Len(names)
      lr == Len(row)
      keys == {names[i] : i \in 1..lf} \cup (IF lf < lr THEN {NoneKey} ELSE {})
      last(k) == CHOOSE i \in 1..lf :
                   names[i] = k /\ \A j \in (i + 1)..lf : names[j] # k
  IN [k \in keys |->
        IF k = NoneKey THEN ListVal(SubSeq(row, lf + 1, lr))
        ELSE IF last(k) > lr THEN NoneVal
        ELSE row[last(k)]]

\* NextLine without DictReader's skipping of blank lines.
NextLine_NoBlankSkip(lines, consumed) ==
  LET from == IF consumed = 0 THEN 2 ELSE consumed + 1
  IN IF from > Len(lines) THEN 0 ELSE from

\* The line DictReader.__next__ yields next when `consumed` lines have been
\* read: the header is read first, blank lines are skipped; 0 at the end.
NextLine(lines, consumed) ==
  LET from == IF consumed = 0 THEN 2 ELSE consumed + 1
      rest == {i \in from..Len(lines) : lines[i] # <<>>}
  IN IF rest = {} THEN 0 ELSE CHOOSE i \in rest : \A j \in rest : i <= j

\* Reading the header, or the next record, raises csv.Error.
ReadRaises(lines, consumed) ==
  \/ consumed = 0 /\ Len(lines) >= 1 /\ lines[1] = OversizedLine
  \/ NextLine(lines, consumed) # 0
       /\ lines[NextLine(lines, consumed)] = OversizedLine

\* ------------------------------------------------------- the transformer
Lit_cedente == <<"c", "e", "d", "e", "n", "t", "e">>
Lit_pagador == <<"p", "a", "g", "a", "d", "o", "r">>
Lit_valor == <<"v", "a", "l", "o", "r">>
Lit_vencimento == <<"v", "e", "n", "c", "i", "m", "e", "n", "t", "o">>

\* get with the `or ""` left out: a missing column gives None.
get_NoDefault(row, k) ==
  LET x == IF k \in DOMAIN row THEN row[k] ELSE NoneVal
  IN IF x = NoneVal THEN NoneVal ELSE Strip(x)

\* get = lambda k: (row.get(k) or "").strip()
get(row, k) ==
  LET x == IF k \in DOMAIN row THEN row[k] ELSE NoneVal
  IN Strip(IF x = NoneVal \/ x = <<>> THEN <<>> ELSE x)

\* The loop body with the disabled "_class" entry switched on.
Transform_WithClass(row, class_name, oid_hex, padsYear) ==
  LET numero == parse_int(get(row, Lit_valor), 0)
  IN [exc |-> numero.exc,
      local |-> [cedente |-> get(row, Lit_cedente),
                 pagador |-> get(row, Lit_pagador),
                 valor |-> get(row, Lit_valor),
                 logradouro |-> get(row, <<>>),
                 numero |-> numero.val],
      doc |-> [cedente |-> get(row, Lit_cedente),
               pagador |-> get(row, Lit_pagador),
               valor |-> get(row, Lit_valor),
               vencimento |-> parse_date_ddmmyyyy(get(row, Lit_vencimento), padsYear),
               class |-> class_name]]

\* The body of carregar's loop for one row: data_str, local, oid_hex, doc.
\* exc is the exception that escapes it, if any.
Transform(row, class_name, oid_hex, padsYear) ==
  LET data_str == parse_date_ddmmyyyy(get(row, Lit_vencimento), padsYear)
      numero == parse_int(get(row, Lit_valor), 0)
      local == [cedente |-> get(row, Lit_cedente),
                pagador |-> get(row, Lit_pagador),
                valor |-> get(row, Lit_valor),
                logradouro |-> get(row, <<>>),
                numero |-> numero.val]
  IN [exc |-> numero.exc,
      local |-> local,
      doc |-> [cedente |-> local.cedente,
               pagador |-> local.pagador,
               valor |-> local.valor,
               vencimento |-> data_str]]

\* ------------------------------------------------------------ the inputs
DEFAULT_CLASS == "com.br.td.utfpr.edu.tsi.cadastro_usuarios.model"

SEMI == <<";">>
Header_Full == Lit_cedente \o SEMI \o Lit_pagador \o SEMI \o Lit_valor
                 \o SEMI \o Lit_vencimento
Headers == {Header_Full}

Row_Good == <<"A", ";", "B", ";", "1", "5", "0", ".", "0", "0", ";",
              "1", "5", "/", "0", "3", "/", "2", "0", "2", "4">>
\* Padded fields, an integer amount, a date with the wrong separators.
Row_BadDate == <<" ", "X", " ", ";", " ", "B", ";", "1", "2", ";",
                 "3", "1", "-", "0", "2", "-", "2", "0", "2", "4">>
\* Fewer fields than the header.
Row_Short == <<"A", ";", "B">>
\* More fields than the header, a date that is not zero-padded, of a year
\* below 1000, and a comma inside a field.
Row_Long == <<"A", ";", "B", ";", "-", "5", ";",
              " ", "1", "/", "2", "/", "0", "9", "9", "9", " ", ";",
              "e", ",", "g">>
Row_Blank == <<>>
RowPool == {Row_Good, Row_BadDate, Row_Short, Row_Long, Row_Blank,
            OversizedLine}

RowSeqs == UNION {[1..n -> RowPool] : n \in 0..MaxRows}

\* The input files of the model: empty, or a header line and data lines.
InputFiles == {<<>>} \cup {<<h>> \o rs : h \in Headers, rs \in RowSeqs}

\* What a path names: nothing ("absent"), nothing in a directory that does
\* not exist ("nodir"), something open() refuses ("denied": a directory, no
\* permission), a file whose bytes are not UTF-8 ("undecodable"), a file.
Absent == [kind |-> "absent", data |-> <<>>]
NoDir == [kind |-> "nodir", data |-> <<>>]
Denied == [kind |-> "denied", data |-> <<>>]
Undecodable == [kind |-> "undecodable", data |-> <<>>]
File(data) == [kind |-> "file", data |-> data]

OldDoc == [cedente |-> <<"o">>, pagador |-> <<"l">>, valor |-> <<"d">>,
           vencimento |-> <<>>]

InputStates == {Absent, Denied, Undecodable} \cup {File(d) : d \in InputFiles}
OutputStates == {Absent, NoDir, Denied, File(<<OldDoc>>)}

InputPaths == {"furtos.csv", "in.csv"}
OutputPaths == {"furtos.json", "out.json"}
Paths == InputPaths \cup OutputPaths

ArgVectors ==
  {<<"main.py">>,
   <<"main.py", "in.csv">>,
   <<"main.py", "in.csv", "out.json">>,
   <<"main.py", "in.csv", "out.json", "com.example.Label">>,
   <<"main.py", "in.csv", "out.json", "com.example.Label", "extra">>}

\* What make_objectid_hex can return: 24 hexadecimal characters.
ObjectIds == {"65f0a1b2c3d4e5f601234567", "0123456789abcdef01234567"}

\* The delimiters passed to csv.Sniffer().sniff.
Candidates == {",", ";", TAB, "|"}
\* sniff returns a dialect with one of them, or raises csv.Error.
SniffOutcomes == Candidates \cup {"Error"}

\* ----------------------------------------------------------------- state
VARIABLES
  argv,        \* sys.argv
  fs,          \* the file system: path -> what it names
  padsYear,    \* the platform: whether the C library's %Y pads to 4 digits
  pc,          \* where main is
  input_csv, output_json, class_name,
  inOpen,      \* carregar's `with path.open(...) as f` holds f
  outOpen,     \* carregar_json's `with open(output, "w") as f` holds f
  delimiter,
  fieldnames,  \* DictReader.fieldnames (None until the header is read)
  consumed,    \* lines the reader has read
  boletins,
  local, oid_hex,
  exitCode,    \* main's return value
  raised,      \* the exception main caught: its type and where it rose
  fs0,         \* history: the file system at the start
  sniffed,     \* history: what sniff did
  rowsSeen,    \* history: the rows the DictReader yielded, in order
  outOpened,   \* history: the output path was opened at some point
  dateIn, dateOut, dateDone   \* parse_date_ddmmyyyy applied on its own

vars == <<argv, fs, padsYear, pc, input_csv, output_json, class_name, inOpen,
          outOpen, delimiter, fieldnames, consumed, boletins, local, oid_hex,
          exitCode, raised, fs0, sniffed, rowsSeen, outOpened,
          dateIn, dateOut, dateDone>>

mainVars == <<argv, fs, pc, input_csv, output_json, class_name, inOpen,
              outOpen, delimiter, fieldnames, consumed, boletins, local,
              oid_hex, exitCode, raised, fs0, sniffed, rowsSeen, outOpened>>
dateVars == <<dateIn, dateOut, dateDone>>

NotExited == 0 - 1
NoException == [type |-> NoExc, at |-> NoExc]
NoLocal == [cedente |-> <<>>, pagador |-> <<>>, valor |-> <<>>,
            logradouro |-> <<>>, numero |-> 0]

InitMain ==
  /\ pc = "main"
  /\ input_csv = "" /\ output_json = "" /\ class_name = ""
  /\ inOpen = FALSE /\ outOpen = FALSE /\ outOpened = FALSE
  /\ delimiter = "" /\ sniffed = ""
  /\ fieldnames = NoneVal /\ consumed = 0
  /\ boletins = <<>> /\ rowsSeen = <<>>
  /\ local = NoLocal /\ oid_hex = ""
  /\ exitCode = NotExited /\ raised = NoException

Init ==
  /\ argv \in ArgVectors
  /\ \E ist \in InputStates, ost \in OutputStates :
       fs = [p \in Paths |-> IF p \in InputPaths THEN ist ELSE ost]
  /\ fs0 = fs
  /\ padsYear \in BOOLEAN
  /\ InitMain
  /\ dateIn = <<>> /\ dateOut = <<>> /\ dateDone = FALSE

\* main's except clauses: FileNotFoundError -> 2, any other Exception -> 3.
ExitCodeFor(type) == IF type = "FileNotFoundError" THEN 2 ELSE 3

\* An exception of `type` rises at `at` and reaches main's try.
Fail(type, at) ==
  /\ raised' = [type |-> type, at |-> at]
  /\ exitCode' = ExitCodeFor(type)
  /\ pc' = "done"

\* ------------------------------------------------------------------ main
\* main, lines 165-182: the accepted argument counts.
Main_Args ==
  /\ pc = "main"
  /\ Len(argv) \in {1, 3, 4}
  /\ input_csv' = IF Len(argv) = 1 THEN "furtos.csv" ELSE argv[2]
  /\ output_json' = IF Len(argv) = 1 THEN "furtos.json" ELSE argv[3]
  /\ class_name' = IF Len(argv) = 4 THEN argv[4] ELSE DEFAULT_CLASS
  /\ pc' = "carregar"
  /\ UNCHANGED <<argv, fs, padsYear, inOpen, outOpen, delimiter, fieldnames,
                 consumed, boletins, local, oid_hex, exitCode, raised, fs0,
                 sniffed, rowsSeen, outOpened, dateVars>>

\* main, lines 176-179: any other count prints the usage and returns 1.
Main_Usage ==
  /\ pc = "main"
  /\ Len(argv) \notin {1, 3, 4}
  /\ exitCode' = 1
  /\ pc' = "done"
  /\ UNCHANGED <<argv, fs, padsYear, input_csv, output_json, class_name,
                 inOpen, outOpen, delimiter, fieldnames, consumed, boletins,
                 local, oid_hex, raised, fs0, sniffed, rowsSeen, outOpened,
                 dateVars>>

\* Path.exists()
Exists(st) == st.kind \notin {"absent", "nodir"}

\* carregar on a missing input that returns the empty list instead of raising.
Carregar_NotFound_ReturnsEmpty ==
  /\ pc = "carregar"
  /\ ~Exists(fs[input_csv])
  /\ pc' = "carregar_json"
  /\ UNCHANGED <<argv, fs, padsYear, input_csv, output_json, class_name,
                 inOpen, outOpen, delimiter, fieldnames, consumed, boletins,
                 local, oid_hex, exitCode, raised, fs0, sniffed, rowsSeen,
                 outOpened, dateVars>>

\* carregar, lines 69-71: the input path does not exist.
Carregar_NotFound ==
  /\ pc = "carregar"
  /\ ~Exists(fs[input_csv])
  /\ Fail("FileNotFoundError", "carregar.exists")
  /\ UNCHANGED <<argv, fs, padsYear, input_csv, output_json, class_name,
                 inOpen, outOpen, delimiter, fieldnames, consumed, boletins,
                 local, oid_hex, fs0, sniffed, rowsSeen, outOpened, dateVars>>

\* carregar, line 73: path.open raises (a directory, no permission).
Carregar_OpenFails ==
  /\ pc = "carregar"
  /\ fs[input_csv].kind = "denied"
  /\ Fail("OSError", "carregar.open")
  /\ UNCHANGED <<argv, fs, padsYear, input_csv, output_json, class_name,
                 inOpen, outOpen, delimiter, fieldnames, consumed, boletins,
                 local, oid_hex, fs0, sniffed, rowsSeen, outOpened, dateVars>>

\* carregar, line 73: the with statement acquires the input handle.
Carregar_Open ==
  /\ pc = "carregar"
  /\ fs[input_csv].kind \in {"file", "undecodable"}
  /\ inOpen' = TRUE
  /\ pc' = "sniff"
  /\ UNCHANGED <<argv, fs, padsYear, input_csv, output_json, class_name,
                 outOpen, delimiter, fieldnames, consumed, boletins, local,
                 oid_hex, exitCode, raised, fs0, sniffed, rowsSeen, outOpened,
                 dateVars>>

\* carregar, line 74: f.read(2048) raises UnicodeDecodeError; the with
\* statement closes f on the way out.
Carregar_SampleFails ==
  /\ pc = "sniff"
  /\ fs[input_csv].kind = "undecodable"
  /\ inOpen' = FALSE
  /\ Fail("UnicodeDecodeError", "carregar.read")
  /\ UNCHANGED <<argv, fs, padsYear, input_csv, output_json, class_name,
                 outOpen, delimiter, fieldnames, consumed, boletins, local,
                 oid_hex, fs0, sniffed, rowsSeen, outOpened, dateVars>>

\* The delimiter with the except clause falling back to no delimiter.
DelimiterAfter_NoFallback(outcome) == IF outcome = "Error" THEN "" ELSE outcome

\* carregar, lines 76-81: the sniffed delimiter, or tab when sniff raised.
DelimiterAfter(outcome) == IF outcome = "Error" THEN TAB ELSE outcome

\* carregar, lines 74-83: the sample, the sniffing and the DictReader.
Carregar_Sniff ==
  /\ pc = "sniff"
  /\ fs[input_csv].kind = "file"
  /\ \E outcome \in SniffOutcomes :
       /\ sniffed' = outcome
       /\ delimiter' = DelimiterAfter(outcome)
  /\ pc' = "rows"
  /\ UNCHANGED <<argv, fs, padsYear, input_csv, output_json, class_name,
                 inOpen, outOpen, fieldnames, consumed, boletins, local,
                 oid_hex, exitCode, raised, fs0, rowsSeen, outOpened, dateVars>>

\* The lines of the input file (none before main has chosen the path).
Lines == IF input_csv \in DOMAIN fs THEN fs[input_csv].data ELSE <<>>

\* DictReader.fieldnames once the header line has been read.
HeaderNames == IF Lines = <<>> THEN NoneVal ELSE ReaderRow(Lines[1], delimiter)

\* carregar, lines 84-151: the reader yields a row and the body appends its
\* document; an exception escaping the body closes f and reaches main.
Carregar_Row ==
  /\ pc = "rows"
  /\ ~ReadRaises(Lines, consumed)
  /\ NextLine(Lines, consumed) # 0
  /\ \E oid \in ObjectIds :
       LET i == NextLine(Lines, consumed)
           row == RowDict(HeaderNames, ReaderRow(Lines[i], delimiter))
           t == Transform(row, class_name, oid, padsYear)
       IN /\ fieldnames' = HeaderNames
          /\ consumed' = i
          /\ rowsSeen' = Append(rowsSeen, row)
          /\ IF t.exc # NoExc
             THEN /\ inOpen' = FALSE
                  /\ Fail(t.exc, "carregar.transform")
                  /\ UNCHANGED <<boletins, local, oid_hex>>
             ELSE /\ boletins' = Append(boletins, t.doc)
                  /\ local' = t.local
                  /\ oid_hex' = oid
                  /\ UNCHANGED <<inOpen, exitCode, raised, pc>>
  /\ UNCHANGED <<argv, fs, padsYear, input_csv, output_json, class_name,
                 outOpen, delimiter, fs0, sniffed, outOpened, dateVars>>

\* The read failure without the with statement: f stays open.
Carregar_ReadFails_Leaks ==
  /\ pc = "rows"
  /\ ReadRaises(Lines, consumed)
  /\ inOpen' = TRUE
  /\ Fail("csv.Error", "carregar.read")
  /\ UNCHANGED <<argv, fs, padsYear, input_csv, output_json, class_name,
                 outOpen, delimiter, fieldnames, consumed, boletins, local,
                 oid_hex, fs0, sniffed, rowsSeen, outOpened, dateVars>>

\* carregar, line 84: the reader raises csv.Error; the with statement
\* closes f on the way out.
Carregar_ReadFails ==
  /\ pc = "rows"
  /\ ReadRaises(Lines, consumed)
  /\ inOpen' = FALSE
  /\ Fail("csv.Error", "carregar.read")
  /\ UNCHANGED <<argv, fs, padsYear, input_csv, output_json, class_name,
                 outOpen, delimiter, fieldnames, consumed, boletins, local,
                 oid_hex, fs0, sniffed, rowsSeen, outOpened, dateVars>>

\* The end of the loop taken as soon as one document is there (a return
\* indented into the loop body).
Carregar_Return_Early ==
  /\ pc = "rows"
  /\ ~ReadRaises(Lines, consumed)
  /\ NextLine(Lines, consumed) = 0 \/ Len(boletins) >= 1
  /\ fieldnames' = HeaderNames
  /\ UNCHANGED consumed
  /\ inOpen' = FALSE
  /\ pc' = "carregar_json"
  /\ UNCHANGED <<argv, fs, padsYear, input_csv, output_json, class_name,
                 outOpen, delimiter, boletins, local, oid_hex, exitCode,
                 raised, fs0, sniffed, rowsSeen, outOpened, dateVars>>

\* carregar, lines 84 and 153-154: the reader is exhausted, the with
\* statement closes f, carregar returns boletins.
Carregar_Return ==
  /\ pc = "rows"
  /\ ~ReadRaises(Lines, consumed)
  /\ NextLine(Lines, consumed) = 0
  /\ fieldnames' = HeaderNames
  /\ consumed' = Len(Lines)
  /\ inOpen' = FALSE
  /\ pc' = "carregar_json"
  /\ UNCHANGED <<argv, fs, padsYear, input_csv, output_json, class_name,
                 outOpen, delimiter, boletins, local, oid_hex, exitCode,
                 raised, fs0, sniffed, rowsSeen, outOpened, dateVars>>

\* carregar_json, line 158: open(output, "w") raises: FileNotFoundError
\* when the directory of the path does not exist, another OSError when the
\* path cannot be written.
CarregarJson_OpenFails ==
  /\ pc = "carregar_json"
  /\ fs[output_json].kind \in {"nodir", "denied"}
  /\ Fail(IF fs[output_json].kind = "nodir" THEN "FileNotFoundError"
          ELSE "OSError", "carregar_json.open")
  /\ UNCHANGED <<argv, fs, padsYear, input_csv, output_json, class_name,
                 inOpen, outOpen, delimiter, fieldnames, consumed, boletins,
                 local, oid_hex, fs0, sniffed, rowsSeen, outOpened, dateVars>>

\* carregar_json, line 158: the file is created or truncated and the with
\* statement acquires the output handle.
CarregarJson_Open ==
  /\ pc = "carregar_json"
  /\ fs[output_json].kind \in {"absent", "file"}
  /\ fs' = [fs EXCEPT ![output_json] = File(<<>>)]
  /\ outOpen' = TRUE
  /\ outOpened' = TRUE
  /\ pc' = "dump"
  /\ UNCHANGED <<argv, padsYear, input_csv, output_json, class_name, inOpen,
                 delimiter, fieldnames, consumed, boletins, local, oid_hex,
                 exitCode, raised, fs0, sniffed, rowsSeen, dateVars>>

\* carregar_json, lines 159-160, and main, line 194: the documents are
\* written, the with statement closes f, main returns 0.
CarregarJson_Dump ==
  /\ pc = "dump"
  /\ fs' = [fs EXCEPT ![output_json] = File(boletins)]
  /\ outOpen' = FALSE
  /\ exitCode' = 0
  /\ pc' = "done"
  /\ UNCHANGED <<argv, padsYear, input_csv, output_json, class_name, inOpen,
                 delimiter, fieldnames, consumed, boletins, local, oid_hex,
                 raised, fs0, sniffed, rowsSeen, outOpened, dateVars>>

\* carregar_json, line 159: a write fails (the disk is full); the with
\* statement closes f over a truncated file.
CarregarJson_DumpFails ==
  /\ pc = "dump"
  /\ fs' = [fs EXCEPT ![output_json] = [kind |-> "truncated", data |-> <<>>]]
  /\ outOpen' = FALSE
  /\ Fail("OSError", "carregar_json.write")
  /\ UNCHANGED <<argv, padsYear, input_csv, output_json, class_name, inOpen,
                 delimiter, fieldnames, consumed, boletins, local, oid_hex,
                 fs0, sniffed, rowsSeen, outOpened, dateVars>>

Next ==
  \/ Main_Args
  \/ Main_Usage
  \/ Carregar_NotFound
  \/ Carregar_OpenFails
  \/ Carregar_Open
  \/ Carregar_SampleFails
  \/ Carregar_Sniff
  \/ Carregar_Row
  \/ Carregar_ReadFails
  \/ Carregar_Return
  \/ CarregarJson_OpenFails
  \/ CarregarJson_Open
  \/ CarregarJson_Dump
  \/ CarregarJson_DumpFails

Spec == Init /\ [][Next]_vars

\* ------------------------------------------- parse_date_ddmmyyyy on its own
Spaces(n) == [i \in 1..n |-> " "]
Pads == {Spaces(n) : n \in 0..MaxPad}
DayTexts == {<<"1", "5">>, <<"1">>, <<"0", "1">>, <<"3", "1">>, <<"2", "9">>,
             <<"3", "0">>, <<"0", "0">>, <<"3", "2">>, <<"5", " ">>, <<>>}
MonthTexts == {<<"0", "3">>, <<"3">>, <<"0", "2">>, <<"2">>, <<"0", "4">>,
               <<"1", "2">>, <<"1", "3">>, <<"0", "0">>, <<" ", "2">>}
YearTexts == {<<"2", "0", "2", "4">>, <<"2", "0", "2", "3">>,
              <<"1", "9", "0", "0">>, <<"2", "0", "0", "0">>,
              <<"0", "9", "9", "9">>, <<"0", "0", "0", "0">>,
              <<"9", "9", "9", "9">>, <<"2", "4">>,
              <<"2", "0", "2", "4", "5">>}
Separators == {<<"/">>, <<"-">>}

\* The vencimento texts of the model.
DateTexts ==
  {lead \o d \o s1 \o m \o s2 \o y \o trail :
     lead \in Pads, d \in DayTexts, s1 \in Separators, m \in MonthTexts,
     s2 \in Separators, y \in YearTexts, trail \in Pads}

InitDate ==
  /\ argv = <<"main.py">>
  /\ fs = [p \in Paths |-> Absent]
  /\ fs0 = fs
  /\ padsYear \in BOOLEAN
  /\ InitMain
  /\ dateIn \in DateTexts \cup {<<>>}
  /\ dateOut = <<>>
  /\ dateDone = FALSE

\* data_str = parse_date_ddmmyyyy(get("vencimento")), line 88.
ParseDate ==
  /\ ~dateDone
  /\ dateOut' = parse_date_ddmmyyyy(dateIn, padsYear)
  /\ dateDone' = TRUE
  /\ UNCHANGED <<mainVars, padsYear, dateIn>>

NextDate == ParseDate

SpecDate == InitDate /\ [][NextDate]_vars

\* ================================================================ claims
Done == pc = "done"
DocKeys == {"cedente", "pagador", "valor", "vencimento"}

\* The indices of the file's data records in file order: the lines after
\* the header that are not blank.
RECURSIVE RecordLinesFrom(_, _)
RecordLinesFrom(lines, j) ==
  IF j > Len(lines) THEN <<>>
  ELSE IF lines[j] = <<>> THEN RecordLinesFrom(lines, j + 1)
  ELSE <<j>> \o RecordLinesFrom(lines, j + 1)

RecordLines(lines) == RecordLinesFrom(lines, 2)

\* carregar has returned its list to main.
CarregarReturned == pc \in {"carregar_json", "dump"} \/ (Done /\ outOpened)
                      \/ (Done /\ raised.at = "carregar_json.open")

\* C1: carregar returns exactly one document per data record the reader
\* yields, the i-th document built from the i-th record of the file: none
\* dropped, duplicated or reordered.
C1_OneDocumentPerRecordInOrder ==
  LET records == RecordLines(Lines)
      names == ReaderRow(Lines[1], delimiter)
  IN /\ Len(boletins) = Len(rowsSeen)
     /\ Len(boletins) <= Len(records)
     /\ \A i \in 1..Len(boletins) :
          LET row == RowDict(names, ReaderRow(Lines[records[i]], delimiter))
          IN /\ rowsSeen[i] = row
             /\ boletins[i].cedente = get(row, Lit_cedente)
             /\ boletins[i].pagador = get(row, Lit_pagador)
             /\ boletins[i].valor = get(row, Lit_valor)
             /\ boletins[i].vencimento
                  = parse_date_ddmmyyyy(get(row, Lit_vencimento), padsYear)
     /\ CarregarReturned => Len(boletins) = Len(records)

\* Two different documents came out of a file holding a blank line too.
C1_Witness ==
  /\ pc = "carregar_json"
  /\ Len(boletins) = 2
  /\ boletins[1].valor # boletins[2].valor
  /\ Len(Lines) = 3
  /\ sniffed = ";"

\* Spec-side reading of a date text: d/m/y with one or two digits of day
\* and of month and four of year.
SlashAt(v) == {i \in 1..Len(v) : v[i] = "/"}
AllDigits(s) == s # <<>> /\ \A i \in 1..Len(s) : s[i] \in Digits
DayPart(v) == SubSeq(v, 1, IndexOf(v, "/") - 1)
AfterDay(v) == SubSeq(v, IndexOf(v, "/") + 1, Len(v))
MonthPart(v) == SubSeq(AfterDay(v), 1, IndexOf(AfterDay(v), "/") - 1)
YearPart(v) == SubSeq(AfterDay(v), IndexOf(AfterDay(v), "/") + 1, Len(AfterDay(v)))
LeapYear(y) == y % 400 = 0 \/ (y % 4 = 0 /\ y % 100 # 0)
RealDate(y, m, d) ==
  /\ y >= 1 /\ m >= 1 /\ m <= 12 /\ d >= 1
  /\ d <= (CASE m \in {1, 3, 5, 7, 8, 10, 12} -> 31
             [] m \in {4, 6, 9, 11} -> 30
             [] m = 2 -> IF LeapYear(y) THEN 29 ELSE 28)
IsDateText(v) ==
  /\ Cardinality(SlashAt(v)) = 2
  /\ AllDigits(DayPart(v)) /\ Len(DayPart(v)) \in {1, 2}
  /\ AllDigits(MonthPart(v)) /\ Len(MonthPart(v)) \in {1, 2}
  /\ AllDigits(YearPart(v)) /\ Len(YearPart(v)) = 4
  /\ RealDate(DecimalValue(YearPart(v)), DecimalValue(MonthPart(v)),
              DecimalValue(DayPart(v)))
\* The text as DD/MM/YYYY: day and month padded to two digits, the year as
\* the platform's %Y writes it.
Rendered(v) ==
  ZeroPad(DayPart(v), 2) \o <<"/">> \o ZeroPad(MonthPart(v), 2) \o <<"/">>
    \o (IF padsYear THEN YearPart(v) ELSE IntText(DecimalValue(YearPart(v))))
\* v has the shape DD/MM/YYYY and names a real date.
MatchesDDMMYYYY(v) == IsDateText(v) /\ Len(v) = 10

InputNotFound == raised.at = "carregar.exists"

\* C3: main returns 0 only when the whole pass succeeded and the output was
\* written, 1 exactly for an argument count other than 1, 3 or 4, 2 exactly
\* when the input file is not found, 3 for any other failure, and always one
\* of the four.
C3_ExitCodes ==
  Done =>
    /\ exitCode \in {0, 1, 2, 3}
    /\ exitCode = 0 =>
         /\ raised = NoException
         /\ fs[output_json] = File(boletins)
         /\ Len(boletins) = Len(RecordLines(Lines))
    /\ exitCode = 1 <=> Len(argv) \notin {1, 3, 4}
    /\ exitCode = 2 <=> InputNotFound
    /\ exitCode = 3 <=> (raised # NoException /\ ~InputNotFound)

\* C4: with an input path that does not exist main exits with 2 and the
\* output path is not touched: nothing is created there and an existing
\* file keeps its content.
C4_MissingInputLeavesOutput ==
  (pc # "main" /\ Len(argv) \in {1, 3, 4} /\ ~Exists(fs0[input_csv])) =>
    /\ ~outOpened /\ ~outOpen
    /\ fs = fs0
    /\ Done => exitCode = 2

\* The run ended on a missing input with a file already at the output path.
C4_Witness ==
  /\ Done
  /\ Len(argv) = 3
  /\ fs0[input_csv].kind = "absent"
  /\ fs0[output_json].kind = "file"
  /\ exitCode = 2

ReadOrTransformFailed ==
  raised.at \in {"carregar.exists", "carregar.open", "carregar.read",
                 "carregar.transform"}

\* C5: the output is opened only after every record has been read and
\* transformed and the input has been closed; when reading or transforming
\* fails the output path is never opened, created or truncated.
C5_OutputOnlyAfterInput ==
  /\ (outOpened \/ outOpen \/ fs # fs0) =>
       /\ ~inOpen
       /\ NextLine(Lines, consumed) = 0
       /\ Len(boletins) = Len(RecordLines(Lines))
       /\ ~ReadOrTransformFailed
  /\ ReadOrTransformFailed => (~outOpened /\ ~outOpen /\ fs = fs0)

\* An existing output file has just been truncated, after two records.
C5_Witness ==
  /\ pc = "dump"
  /\ Len(boletins) = 2
  /\ fs0[output_json].kind = "file"
  /\ fs[output_json] = File(<<>>)

C8_FieldFailuresDegrade ==
  /\ Len(boletins) = Len(rowsSeen)
  /\ raised.at # "carregar.transform"
  /\ \A i \in 1..Len(boletins) :
       strptime(get(rowsSeen[i], Lit_vencimento)).exc # NoExc
         => boletins[i].vencimento = <<>>
  /\ Len(rowsSeen) >= 1 =>
       LET valor == get(rowsSeen[Len(rowsSeen)], Lit_valor)
       IN local.numero = IF PyInt(valor).exc # NoExc THEN 0 ELSE PyInt(valor).val

\* A run ended with 0 whose last row had a malformed date and whose first
\* had an amount that is no integer.
C8_Witness ==
  /\ Done /\ exitCode = 0
  /\ Len(boletins) = 2
  /\ get(rowsSeen[1], Lit_valor) = <<"1", "5", "0", ".", "0", "0">>
  /\ get(rowsSeen[2], Lit_vencimento)
       = <<"3", "1", "-", "0", "2", "-", "2", "0", "2", "4">>
  /\ boletins[2].vencimento = <<>>
  /\ local.numero = 12

RECURSIVE JoinWith(_, _)
JoinWith(fields, delim) ==
  IF Len(fields) = 1 THEN fields[1]
  ELSE fields[1] \o <<delim>> \o JoinWith(Tail(fields), delim)

\* C9: delimiter detection never raises: the delimiter is one of comma,
\* semicolon, tab and pipe as detected, or tab when detection failed, and
\* the header and the records are split at that delimiter.
C9_DelimiterAlwaysUsable ==
  /\ raised.at # "carregar.sniff"
  /\ pc = "rows" => sniffed # ""
  /\ sniffed # "" =>
       /\ delimiter \in Candidates
       /\ sniffed = "Error" => delimiter = TAB
       /\ sniffed # "Error" => delimiter = sniffed
  /\ rowsSeen # <<>> =>
       LET records == RecordLines(Lines)
           names == ReaderRow(Lines[1], delimiter)
       IN /\ JoinWith(names, delimiter) = Lines[1]
          /\ \A i \in 1..Len(rowsSeen) :
               LET line == Lines[records[i]]
                   cells == ReaderRow(line, delimiter)
               IN /\ JoinWith(cells, delimiter) = line
                  /\ \A j \in 1..Len(cells) : \A c \in 1..Len(cells[j]) :
                       cells[j][c] # delimiter
                  /\ \A j \in 1..Len(names) :
                       (j <= Len(cells)
                          /\ \A h \in (j + 1)..Len(names) : names[h] # names[j])
                         => rowsSeen[i][names[j]] = cells[j]

\* Detection failed and the rows were read with tab.
C9_Witness ==
  /\ sniffed = "Error"
  /\ delimiter = TAB
  /\ Len(boletins) = 2

\* C10: when main returns neither handle is open, whichever step failed,
\* and the two handles are never open together.
C10_HandlesReleased ==
  /\ Done => (~inOpen /\ ~outOpen)
  /\ ~(inOpen /\ outOpen)

\* main returned after the reader failed on the second record.
C10_Witness ==
  /\ Done
  /\ raised.at = "carregar.read"
  /\ Len(boletins) = 1
  /\ ~inOpen

====
